---- MODULE Spec2Model ----
(***************************************************************************)
(* ElixirLintingProvider (src/credoProvider.ts): the lint trigger, the     *)
(* info-mode eligibility check, the lint-mode invocation, the parsing of   *)
(* its output and the replacement of the document's diagnostics.           *)
(***************************************************************************)
EXTENDS Integers, Sequences, FiniteSets, TLC

(* ------------------------------ bounds ------------------------------- *)
\* lint triggers (calls of linter) in one behaviour
MaxTriggers == 2
\* edits of document text in one behaviour
MaxEdits == 1
\* characters of a position or column handed to getDiagnosticInfo
MaxTokenLen == 2
\* the values handed to makeZeroIndex are -MaxValue..MaxValue
MaxValue == 3
\* lines of a lint-mode output handed to handleFileDiagnosticOutput
MaxLines == 3
\* paths of a config.files array handed to handleCredoFileOutput
MaxFiles == 2

(* --------------------------- JS numbers ------------------------------ *)
\* A JavaScript number is an integer or NaN.
NaN == [isNaN |-> TRUE, v |-> 0]
Num(n) == [isNaN |-> FALSE, v |-> n]

DigitChars == {"0", "1", "2", "3", "4", "5", "6", "7", "8", "9"}
DigitVal == ("0" :> 0) @@ ("1" :> 1) @@ ("2" :> 2) @@ ("3" :> 3) @@ ("4" :> 4)
            @@ ("5" :> 5) @@ ("6" :> 6) @@ ("7" :> 7) @@ ("8" :> 8) @@ ("9" :> 9)

\* A token is a sequence of characters; Undefined is a field that is absent.
Undefined == <<"undefined">>

RECURSIVE DigitPrefixLen(_)
DigitPrefixLen(s) ==
  IF s = <<>> \/ s[1] \notin DigitChars THEN 0 ELSE 1 + DigitPrefixLen(Tail(s))

RECURSIVE DigitsValue(_, _)
DigitsValue(s, n) ==
  IF n = 0 THEN 0 ELSE 10 * DigitsValue(s, n - 1) + DigitVal[s[n]]

\* parseInt(s, 10): optional sign, then the longest prefix of digits.
parseInt(s) ==
  LET neg == s # <<>> /\ s[1] = "-"
      rest == IF neg THEN Tail(s) ELSE s
      n == DigitPrefixLen(rest)
  IN IF n = 0 THEN NaN
     ELSE Num(IF neg THEN 0 - DigitsValue(rest, n) ELSE DigitsValue(rest, n))

\* ToNumber(s), the coercion of `s <= 0` and `s - 1`: the whole token must be
\* a number; the empty string is 0.
ToNumber(s) ==
  LET neg == s # <<>> /\ s[1] = "-"
      rest == IF neg THEN Tail(s) ELSE s
      n == DigitPrefixLen(rest)
  IN IF s = <<>> THEN Num(0)
     ELSE IF n = 0 \/ n # Len(rest) THEN NaN
     ELSE Num(IF neg THEN 0 - DigitsValue(rest, n) ELSE DigitsValue(rest, n))

\* x <= 0 on a coerced value: every comparison with NaN is false.
LeqZero(x) == ~x.isNaN /\ x.v <= 0

\* A zero index that tests value < 0.
makeZeroIndexStrict(value) ==
  IF ~value.isNaN /\ value.v < 0 THEN Num(0)
  ELSE IF value.isNaN THEN NaN ELSE Num(value.v - 1)

makeZeroIndex(value) ==
  IF LeqZero(value) THEN Num(0)
  ELSE IF value.isNaN THEN NaN ELSE Num(value.v - 1)

(* ------------------------ parsing lint output ------------------------ *)
NoResult == [none |-> TRUE]

getDiagnosticInfo(lineInfo) ==
  IF lineInfo = NoResult THEN NoResult
  ELSE
    LET isNotAnumber == parseInt(lineInfo.position).isNaN
                        \/ parseInt(lineInfo.column).isNaN
        isLessThanOrEqualToZero == LeqZero(ToNumber(lineInfo.position))
                                   \/ LeqZero(ToNumber(lineInfo.column))
    IN IF isNotAnumber \/ isLessThanOrEqualToZero THEN NoResult
       ELSE [check |-> lineInfo.check,
             endColumn |-> makeZeroIndex(ToNumber(lineInfo.column)),
             endLine |-> makeZeroIndex(ToNumber(lineInfo.position)),
             message |-> lineInfo.message,
             startColumn |-> Num(0),
             startLine |-> makeZeroIndex(ToNumber(lineInfo.position))]

\* One line of lint-mode output: a finding record in the oneline format, or
\* text that does not match it.
FindingLine(pos, col, msg, chk) ==
  [matches |-> TRUE, position |-> pos, column |-> col, message |-> msg, check |-> chk]
TextLine(txt) == [matches |-> FALSE, text |-> txt]
BlankLine == TextLine("")

LineOk == FindingLine(<<"5">>, <<"3">>, "Function is too complex.", "Refactor.CyclomaticComplexity")
LineOk2 == FindingLine(<<"1">>, <<"1">>, "Unused variable.", "Warning.UnusedOperation")
LineBadColumn == FindingLine(<<"2">>, <<"x">>, "Bad column.", "Readability.MaxLineLength")
LineZeroPosition == FindingLine(<<"0">>, <<"1">>, "Zero line.", "Design.TagTODO")
LineSummary == TextLine("Please report incorrect results")

Lines == {LineOk, LineOk2, LineBadColumn, LineZeroPosition, LineSummary, BlankLine}

\* parse.getLines: split on line boundaries, discarding blank lines.
RECURSIVE getLines(_)
getLines(output) ==
  IF output = <<>> THEN <<>>
  ELSE IF Head(output) = BlankLine THEN getLines(Tail(output))
  ELSE <<Head(output)>> \o getLines(Tail(output))

\* parse.getLineInfo: the fields of a finding line, nothing for other lines.
getLineInfo(line) ==
  IF line.matches
  THEN [check |-> line.check, position |-> line.position,
        column |-> line.column, message |-> line.message]
  ELSE NoResult

\* A parse that gives up the whole output at a record that is dropped.
parseOutputAllOrNothing(output) ==
  LET lines == getLines(output)
      items == [i \in 1..Len(lines) |-> getDiagnosticInfo(getLineInfo(lines[i]))]
  IN IF \E i \in 1..Len(items) : items[i] = NoResult THEN <<>> ELSE items

parseOutput(output) ==
  LET lines == getLines(output)
  IN [i \in 1..Len(lines) |-> getDiagnosticInfo(getLineInfo(lines[i]))]

\* severity.parse: a static table keyed by the category of the check.
severityParse(check) ==
  CASE check = "Refactor.CyclomaticComplexity" -> "Information"
    [] check = "Warning.UnusedOperation" -> "Warning"
    [] check = "Readability.MaxLineLength" -> "Information"
    [] OTHER -> "Information"

getDiagnosis(item) ==
  LET itemSeverity == severityParse(item.check)
  IN [range |-> <<item.startLine, item.startColumn, item.endLine, item.endColumn>>,
      message |-> <<item.message, item.check, itemSeverity>>,
      severity |-> itemSeverity]

(* ----------------------------- documents ----------------------------- *)
TextDocuments == {"foo", "other", "readme"}

languageId == [d \in TextDocuments |->
  IF d = "readme" THEN "markdown" ELSE "elixir"]

\* textDocument.fileName, a path as its sequence of segments
fileName == [d \in TextDocuments |->
  CASE d = "foo" -> <<"proj", "lib", "foo.ex">>
    [] d = "other" -> <<"proj", "lib", "other.ex">>
    [] d = "readme" -> <<"proj", "README.md">>]

\* textDocument.uri, the identity the diagnostics are stored under
uri == [d \in TextDocuments |->
  CASE d = "foo" -> "file:///proj/lib/foo.ex"
    [] d = "other" -> "file:///proj/lib/other.ex"
    [] d = "readme" -> "file:///proj/README.md"]

\* vscode.workspace.rootPath
rootPath == <<"proj">>

\* path.join: concatenate, then drop "." and resolve ".." segments.
RECURSIVE normalizePath(_, _)
normalizePath(segs, acc) ==
  IF segs = <<>> THEN acc
  ELSE IF Head(segs) = "." THEN normalizePath(Tail(segs), acc)
  ELSE IF Head(segs) = ".." /\ acc # <<>> /\ acc[Len(acc)] # ".."
    THEN normalizePath(Tail(segs), SubSeq(acc, 1, Len(acc) - 1))
  ELSE normalizePath(Tail(segs), Append(acc, Head(segs)))

\* A join that leaves the root out.
pathJoinRelative(a, b) == normalizePath(b, <<>>)

pathJoin(a, b) == normalizePath(a \o b, <<>>)

(* ------------------------- info-mode output -------------------------- *)
\* The text of the info-mode output, by what JSON.parse makes of it: not
\* JSON, null, an object without config, a config without files, or a
\* config with a files array.  Dropping blank lines and joining the rest
\* (parse.getLines, join) does not change which of these a text is.
NotJson == [valid |-> FALSE, isNull |-> FALSE, hasConfig |-> FALSE, hasFiles |-> FALSE, files |-> <<>>]
JsonNull == [valid |-> TRUE, isNull |-> TRUE, hasConfig |-> FALSE, hasFiles |-> FALSE, files |-> <<>>]
JsonNoConfig == [valid |-> TRUE, isNull |-> FALSE, hasConfig |-> FALSE, hasFiles |-> FALSE, files |-> <<>>]
JsonNoFiles == [valid |-> TRUE, isNull |-> FALSE, hasConfig |-> TRUE, hasFiles |-> FALSE, files |-> <<>>]
JsonFiles(fs) == [valid |-> TRUE, isNull |-> FALSE, hasConfig |-> TRUE, hasFiles |-> TRUE, files |-> fs]

InfoOutputs ==
  {NotJson, JsonNull, JsonNoConfig, JsonNoFiles,
   JsonFiles(<<<<"lib", "foo.ex">>, <<"lib", "bar.ex">>>>),
   JsonFiles(<<<<"lib", "bar.ex">>, <<".", "lib", "other.ex">>>>)}

\* The outcome of a call: it threw, or it returned value (undefined: the
\* value is the JavaScript undefined).
Threw == [threw |-> TRUE, undefined |-> FALSE, value |-> <<>>]
Returned(v) == [threw |-> FALSE, undefined |-> FALSE, value |-> v]
ReturnedUndefined == [threw |-> FALSE, undefined |-> TRUE, value |-> <<>>]

\* A parse that answers text that is not JSON with a manifest of its own.
parseInfoOutputLenient(output) ==
  IF ~output.valid \/ output.isNull THEN Returned(<<<<"lib", "foo.ex">>, <<"lib", "other.ex">>>>)
  ELSE IF ~output.hasConfig THEN Returned(<<>>)
  ELSE IF ~output.hasFiles THEN ReturnedUndefined
  ELSE Returned(output.files)

parseInfoOutput(output) ==
  IF ~output.valid THEN Threw                 \* JSON.parse: SyntaxError
  ELSE IF output.isNull THEN Threw            \* info.config of null: TypeError
  ELSE IF ~output.hasConfig THEN Returned(<<>>)
  ELSE IF ~output.hasFiles THEN ReturnedUndefined
  ELSE Returned(output.files)

\* handleCredoFileOutput up to its call of callback: the files handed to it,
\* or Threw when parseInfoOutput or the map over its result throws.
credoFiles(decoded) ==
  LET parsed == parseInfoOutput(decoded)
  IN IF parsed.threw \/ parsed.undefined THEN Threw
     ELSE Returned([i \in 1..Len(parsed.value) |-> pathJoin(rootPath, parsed.value[i])])

\* files.indexOf(name): the first index (from 0) of name, or -1
indexOf(files, name) ==
  IF \E i \in 1..Len(files) : files[i] = name
  THEN (CHOOSE i \in 1..Len(files) :
          files[i] = name /\ \A j \in 1..(i - 1) : files[j] # name) - 1
  ELSE 0 - 1

(* ------------------------- lint-mode output -------------------------- *)
\* The outputs a lint-mode process writes here: nothing, findings, findings
\* among lines that are dropped, and only lines that are dropped.
LintOutputs ==
  {<<>>,
   <<LineOk>>,
   <<LineOk2, LineBadColumn, LineOk>>,
   <<BlankLine, LineSummary>>,
   <<LineBadColumn, LineZeroPosition>>}

(* --------------------------- the collection -------------------------- *)
\* set that merges: the diagnostics are added to those the entry of uri holds.
CollectionSetMerge(coll, u, diagnostics) ==
  IF \E e \in coll : e.uri = u
  THEN {e \in coll : e.uri # u}
         \cup {[uri |-> u, diagnostics |-> e.diagnostics \o diagnostics] :
                 e \in {x \in coll : x.uri = u}}
  ELSE coll \cup {[uri |-> u, diagnostics |-> diagnostics]}

\* set that keeps the entry uri has: only the first publish counts.
CollectionSetKeepFirst(coll, u, diagnostics) ==
  IF \E e \in coll : e.uri = u THEN coll
  ELSE coll \cup {[uri |-> u, diagnostics |-> diagnostics]}

\* set that leaves the entry of uri alone in the collection.
CollectionSetOnly(coll, u, diagnostics) ==
  {[uri |-> u, diagnostics |-> diagnostics]}

\* diagnosticCollection.set(uri, diagnostics): the entry of uri is replaced.
CollectionSet(coll, u, diagnostics) ==
  {e \in coll : e.uri # u} \cup {[uri |-> u, diagnostics |-> diagnostics]}

\* The diagnostics handleFileDiagnosticOutput builds from an output.
buildDiagnostics(decoded) ==
  LET items == parseOutput(decoded)
      kept == SelectSeq(items, LAMBDA item : item # NoResult)
  IN [i \in 1..Len(kept) |-> getDiagnosis(kept[i])]

handleFileDiagnosticOutput(coll, decoded, textDocument) ==
  CollectionSet(coll, uri[textDocument], buildDiagnostics(decoded))

\* handleFileDiagnosticError: console.warn of the error
handleFileDiagnosticError(warnings, error) == Append(warnings, error)

(* ------------------------------- state ------------------------------- *)
VARIABLES
  diagnosticCollection, \* this.diagnosticCollection: a set of entries [uri, diagnostics]
  docText,              \* the version of the text each document holds (getText())
  triggers,             \* one record per call of linter, in call order
  warnings,             \* what console.warn has been given
  lastInfo,             \* the last info-mode process that exited with 0, and its output
  lastExit,             \* the last lint-mode process that exited, and its output
  call                  \* the last direct call of a method, with its argument and result

vars == <<diagnosticCollection, docText, triggers, warnings, lastInfo, lastExit, call>>

\* No method has been called directly.
NoCall == [fn |-> "", arg |-> <<>>, doc |-> "", result |-> <<>>]

NoInfo == [trigger |-> 0, stdout |-> NotJson]

\* prior: how many diagnostics the document had when the process ended
NoExit == [trigger |-> 0, doc |-> "", code |-> 0, output |-> <<>>, prior |-> 0]

\* The record of a trigger for document d, before linter has done anything.
\*   pc: "info" (info-mode process running), "lint" (lint-mode process
\*       running), "done"
\*   log: what the trigger did, in order
\*   callbacks: the files of every call of the callback of getLintedFiles
\*   stdin: what was done to the standard input of the lint-mode process
NewTrigger(d) ==
  [doc |-> d, pc |-> "done", log |-> <<>>, callbacks |-> <<>>,
   infoOutcome |-> "none",
   stdin |-> <<>>, lintOutcome |-> "none"]

\* An eligibility test that lets every document through.
isLintedAlways(files, textDocument) == TRUE

\* The eligibility test of the callback: is the document among the files?
isLinted(files, textDocument) == indexOf(files, fileName[textDocument]) # 0 - 1

\* A callback that awaits the process before it closes the input.
linterCallbackLateEnd(t, files, text) ==
  LET called == [t EXCEPT !.callbacks = Append(@, files),
                          !.log = Append(@, "callback")]
  IN IF ~isLinted(files, t.doc) THEN called
     ELSE [called EXCEPT
             !.pc = "lint",
             !.stdin = @ \o <<[op |-> "write", text |-> text]>>,
             !.lintOutcome = "pending",
             !.log = @ \o <<"lintSpawn", "stdinWrite">>]

\* The callback linter passes to getLintedFiles, called with files: stop when
\* the document is not among them, else spawn the lint-mode process, write
\* the text to its input and close the input.
linterCallback(t, files, text) ==
  LET called == [t EXCEPT !.callbacks = Append(@, files),
                          !.log = Append(@, "callback")]
  IN IF ~isLinted(files, t.doc) THEN called
     ELSE [called EXCEPT
             !.pc = "lint",
             !.stdin = @ \o <<[op |-> "write", text |-> text], [op |-> "end", text |-> 0]>>,
             !.lintOutcome = "pending",
             !.log = @ \o <<"lintSpawn", "stdinWrite", "stdinEnd">>]

\* getLintedFiles: spawn the info-mode process; the promise of its output has
\* no pid, so the callback is called at once with no files.
getLintedFiles(t, text) ==
  LET spawned == [t EXCEPT !.pc = "info", !.infoOutcome = "pending",
                           !.log = Append(@, "infoSpawn")]
      childHasPid == FALSE
  IN IF childHasPid THEN spawned
     ELSE linterCallback(spawned, <<>>, text)

\* A filter that lets every language through.
isElixirAlways(textDocument) == TRUE

isElixir(textDocument) == languageId[textDocument] = "elixir"

Init ==
  /\ diagnosticCollection = {}
  /\ docText = [d \in TextDocuments |-> 0]
  /\ triggers = <<>>
  /\ warnings = <<>>
  /\ lastInfo = NoInfo
  /\ lastExit = NoExit
  /\ call = NoCall

\* linter(textDocument): a lint trigger
linter(d) ==
  /\ Len(triggers) < MaxTriggers
  /\ triggers' = Append(triggers,
       IF ~isElixir(d) THEN NewTrigger(d)
       ELSE getLintedFiles(NewTrigger(d), docText[d]))
  /\ UNCHANGED <<diagnosticCollection, docText, warnings, lastInfo, lastExit, call>>

\* The user edits document d.
Edits == docText["foo"] + docText["other"] + docText["readme"]

\* The document that is edited while its triggers run.
EditedDocuments == {"foo"}

ChangeText(d) ==
  /\ d \in EditedDocuments
  /\ Edits < MaxEdits
  /\ docText' = [docText EXCEPT ![d] = @ + 1]
  /\ UNCHANGED <<diagnosticCollection, triggers, warnings, lastInfo, lastExit, call>>

\* A rejected promise nothing handles: the trigger ends there.
Unhandled(t) ==
  [t EXCEPT !.pc = "done", !.log = Append(@, "unhandledRejection")]

\* The info-mode process cannot be spawned: the promise rejects, the then of
\* getLintedFiles does not run and nothing catches the rejection.
InfoSpawnFails(i) ==
  /\ triggers[i].pc = "info"
  /\ triggers' = [triggers EXCEPT ![i] =
       Unhandled([@ EXCEPT !.infoOutcome = "spawnfail"])]
  /\ UNCHANGED <<diagnosticCollection, docText, warnings, lastInfo, lastExit, call>>

\* handleCredoFileOutput that runs for the end of the output and again for
\* the promise, as it would were both handlers of getLintedFiles attached.
handleCredoFileOutputTwice(t, decoded, text) ==
  LET files == credoFiles(decoded)
  IN IF files.threw THEN Unhandled(t)
     ELSE linterCallback(linterCallback([t EXCEPT !.pc = "done"], files.value, text),
                         files.value, text)

\* handleCredoFileOutput(decoded, callback, vscode) for trigger t: the
\* callback is called with the files unless parsing them throws.
handleCredoFileOutput(t, decoded, text) ==
  LET files == credoFiles(decoded)
  IN IF files.threw THEN Unhandled(t)
     ELSE linterCallback([t EXCEPT !.pc = "done"], files.value, text)

\* cmd.getOptions(vscode): the working-directory context of the processes
getOptions == [cwd |-> rootPath]

ExitCodes == {0, 1}

\* The promise of execa for a process that was spawned and exited with code:
\* it resolves on code 0, and on any code when options.reject is false;
\* otherwise it rejects.
promiseResolves(options, code) ==
  \/ code = 0
  \/ ("reject" \in DOMAIN options /\ options.reject = FALSE)

\* The info-mode process exits with code and output stdout.  When the promise
\* resolves, the then of getLintedFiles runs handleCredoFileOutput, which
\* calls the callback unless it throws; a rejection, or what the handler
\* throws, is caught by nothing.
InfoExits(i, code, stdout) ==
  /\ triggers[i].pc = "info"
  /\ LET resolved == promiseResolves(getOptions, code)
         t == [triggers[i] EXCEPT
                 !.infoOutcome = IF resolved THEN "resolved" ELSE "nonzero",
                 !.log = Append(@, "infoExit")]
     IN /\ triggers' = [triggers EXCEPT ![i] =
             IF ~resolved THEN Unhandled(t)
             ELSE handleCredoFileOutput(t, stdout, docText[t.doc])]
        /\ lastInfo' = IF resolved THEN [trigger |-> i, stdout |-> stdout]
                       ELSE lastInfo
  /\ UNCHANGED <<diagnosticCollection, docText, warnings, lastExit, call>>

EntriesOf(coll, d) == {e \in coll : e.uri = uri[d]}

\* The number of diagnostics the collection holds for document d.
RECURSIVE SumLen(_)
SumLen(S) ==
  IF S = {} THEN 0
  ELSE LET e == CHOOSE x \in S : TRUE IN Len(e.diagnostics) + SumLen(S \ {e})

CountOf(coll, d) == SumLen(EntriesOf(coll, d))

\* A then whose handler runs on rejection as well.
lintThenAlways(coll, resolved, decoded, textDocument) ==
  handleFileDiagnosticOutput(coll, decoded, textDocument)

\* What the then of the lint-mode promise does to the collection once the
\* promise settles: the handler runs when it resolves, nothing when it rejects.
lintThen(coll, resolved, decoded, textDocument) ==
  IF resolved THEN handleFileDiagnosticOutput(coll, decoded, textDocument)
  ELSE coll

\* The lint-mode process cannot be spawned: the promise rejects.
LintSpawnFails(i) ==
  /\ triggers[i].pc = "lint"
  /\ triggers' = [triggers EXCEPT ![i] =
       Unhandled([@ EXCEPT !.lintOutcome = "spawnfail"])]
  /\ diagnosticCollection' =
       lintThen(diagnosticCollection, FALSE, <<>>, triggers[i].doc)
  /\ UNCHANGED <<docText, warnings, lastInfo, lastExit, call>>

\* The lint-mode process exits with code, having written output: the then of
\* linter runs handleFileDiagnosticOutput when the promise resolves; a
\* rejection is caught by nothing.  The promise resolves with the result of
\* the process; output stands for the text parse.getLines finds in it.
LintExits(i, code, output) ==
  /\ triggers[i].pc = "lint"
  /\ LET resolved == promiseResolves(getOptions, code)
         t == [triggers[i] EXCEPT
                 !.lintOutcome = IF resolved THEN "resolved" ELSE "nonzero",
                 !.log = Append(@, "lintExit")]
     IN /\ triggers' = [triggers EXCEPT ![i] =
             IF resolved THEN [t EXCEPT !.pc = "done", !.log = Append(@, "publish")]
             ELSE Unhandled(t)]
        /\ diagnosticCollection' =
             lintThen(diagnosticCollection, resolved, output, t.doc)
  /\ lastExit' = [trigger |-> i, doc |-> triggers[i].doc, code |-> code,
                  output |-> output,
                  prior |-> CountOf(diagnosticCollection, triggers[i].doc)]
  /\ UNCHANGED <<docText, warnings, lastInfo, call>>

Next ==
  \/ \E d \in TextDocuments : linter(d)
  \/ \E d \in TextDocuments : ChangeText(d)
  \/ \E i \in 1..Len(triggers) : InfoSpawnFails(i)
  \/ \E i \in 1..Len(triggers), code \in ExitCodes, stdout \in InfoOutputs :
       InfoExits(i, code, stdout)
  \/ \E i \in 1..Len(triggers) : LintSpawnFails(i)
  \/ \E i \in 1..Len(triggers), code \in ExitCodes, output \in LintOutputs :
       LintExits(i, code, output)

Spec == Init /\ [][Next]_vars

(* ------------------------ the methods, called directly ---------------- *)
\* One method is called once, on a provider that has just been constructed.
RECURSIVE SeqsUpTo(_, _)
SeqsUpTo(S, n) ==
  IF n = 0 THEN {<<>>}
  ELSE LET shorter == SeqsUpTo(S, n - 1)
       IN shorter \cup {Append(q, x) : q \in shorter, x \in S}

\* The positions and columns of a record: an absent field, and the strings
\* of a digit that is zero, a digit that is not, a sign and a letter.
TokenChars == {"0", "3", "-", "x"}
Tokens == SeqsUpTo(TokenChars, MaxTokenLen) \cup {Undefined}

Checks == {"Refactor.CyclomaticComplexity", "Warning.UnusedOperation"}

LineInfos ==
  {[check |-> c, position |-> p, column |-> k, message |-> "Function is too complex."] :
     c \in Checks, p \in Tokens, k \in Tokens} \cup {NoResult}

\* The paths of a config.files array, relative to the project root.
RelativePaths ==
  {<<"lib", "foo.ex">>, <<"lib", "bar.ex">>, <<"lib", "other.ex">>,
   <<".", "lib", "other.ex">>, <<"lib", "sub", "..", "foo.ex">>}

ManifestOutputs ==
  {NotJson, JsonNull, JsonNoConfig, JsonNoFiles}
    \cup {JsonFiles(fs) : fs \in SeqsUpTo(RelativePaths, MaxFiles)}

\* this.makeZeroIndex(value)
CallMakeZeroIndex(v) ==
  /\ call = NoCall
  /\ call' = [fn |-> "makeZeroIndex", arg |-> v, doc |-> "",
              result |-> makeZeroIndex(Num(v))]
  /\ UNCHANGED <<diagnosticCollection, docText, triggers, warnings, lastInfo, lastExit>>

\* this.getDiagnosticInfo(lineInfo)
CallGetDiagnosticInfo(lineInfo) ==
  /\ call = NoCall
  /\ call' = [fn |-> "getDiagnosticInfo", arg |-> lineInfo, doc |-> "",
              result |-> getDiagnosticInfo(lineInfo)]
  /\ UNCHANGED <<diagnosticCollection, docText, triggers, warnings, lastInfo, lastExit>>

\* this.handleFileDiagnosticOutput(decoded, textDocument, vscode) on a
\* collection that holds nothing: the result is the collection it leaves.
CallHandleFileDiagnosticOutput(decoded, d) ==
  /\ call = NoCall
  /\ call' = [fn |-> "handleFileDiagnosticOutput", arg |-> decoded, doc |-> d,
              result |-> handleFileDiagnosticOutput({}, decoded, d)]
  /\ UNCHANGED <<diagnosticCollection, docText, triggers, warnings, lastInfo, lastExit>>

\* this.handleCredoFileOutput(decoded, callback, vscode) with the callback of
\* linter for document d: the files the callback gets, and its verdict.
CallHandleCredoFileOutput(decoded, d) ==
  /\ call = NoCall
  /\ LET files == credoFiles(decoded)
     IN call' = [fn |-> "handleCredoFileOutput", arg |-> decoded, doc |-> d,
                 result |-> [threw |-> files.threw, files |-> files.value,
                             linted |-> ~files.threw /\ isLinted(files.value, d)]]
  /\ UNCHANGED <<diagnosticCollection, docText, triggers, warnings, lastInfo, lastExit>>

CallNext ==
  \/ \E v \in (0 - MaxValue)..MaxValue : CallMakeZeroIndex(v)
  \/ \E lineInfo \in LineInfos : CallGetDiagnosticInfo(lineInfo)
  \/ \E decoded \in SeqsUpTo(Lines, MaxLines), d \in TextDocuments :
       CallHandleFileDiagnosticOutput(decoded, d)
  \/ \E decoded \in ManifestOutputs, d \in TextDocuments :
       CallHandleCredoFileOutput(decoded, d)

CallSpec == Init /\ [][CallNext]_vars

(* ------------------------------ claims ------------------------------- *)
Triggers == 1..Len(triggers)

\* How many times event ev is in a log.
Count(log, ev) == Cardinality({k \in 1..Len(log) : log[k] = ev})

Did(i, ev) == Count(triggers[i].log, ev) > 0

\* The step is one in which trigger i does ev.
Does(i, ev) ==
  /\ i \in Triggers
  /\ Count(triggers'[i].log, ev) > Count(triggers[i].log, ev)

\* The one entry a publish of output leaves for document d.
EntryFor(d, output) == [uri |-> uri[d], diagnostics |-> buildDiagnostics(output)]

Rejected(i) == triggers[i].lintOutcome \in {"spawnfail", "nonzero"}

\* C1: the collection holds at most one entry per document identity, and
\* after a publish the entry of the document is exactly the diagnostics
\* built from that run's output, whatever the entry held before.
C1_ReplaceNeverMerge ==
  /\ \A e1, e2 \in diagnosticCollection : e1.uri = e2.uri => e1 = e2
  /\ (lastExit.trigger # 0 /\ Did(lastExit.trigger, "publish"))
       => EntriesOf(diagnosticCollection, lastExit.doc)
            = {EntryFor(lastExit.doc, lastExit.output)}

\* A publish of some diagnostics over an entry that held some.
C1_Witness ==
  /\ lastExit.trigger # 0
  /\ Did(lastExit.trigger, "publish")
  /\ lastExit.prior > 0
  /\ Len(buildDiagnostics(lastExit.output)) > 0
  /\ Len(buildDiagnostics(lastExit.output)) # lastExit.prior

\* C2: when a lint-mode run ends with an output that yields no surviving
\* finding, the empty list is published: the document's entry is empty.
C2_CleanRunClears ==
  (lastExit.trigger # 0 /\ buildDiagnostics(lastExit.output) = <<>>)
    => EntriesOf(diagnosticCollection, lastExit.doc) = {EntryFor(lastExit.doc, <<>>)}

\* C3: a callback whose files do not hold the document's path spawns no
\* lint-mode process, so a trigger whose manifests never hold it never
\* publishes, and no call of the callback changes the collection.
C3_Ineligible(i) ==
  LET t == triggers[i]
      holds == {k \in 1..Len(t.callbacks) :
                  \E n \in 1..Len(t.callbacks[k]) : t.callbacks[k][n] = fileName[t.doc]}
  IN /\ Count(t.log, "lintSpawn") = Cardinality(holds)
     /\ holds = {} => (t.pc # "lint" /\ ~Did(i, "publish") /\ t.stdin = <<>>)

C3_NotInManifestStops ==
  /\ [](\A i \in Triggers : C3_Ineligible(i))
  /\ [][\A i \in Triggers :
          (Does(i, "callback") /\ ~Does(i, "lintSpawn"))
            => diagnosticCollection' = diagnosticCollection]_vars

\* An elixir document whose info-mode output names other files only.
C3_Witness ==
  \E i \in Triggers :
    /\ triggers[i].pc = "done"
    /\ Len(triggers[i].callbacks) = 2
    /\ triggers[i].callbacks[2] # <<>>
    /\ ~Did(i, "lintSpawn")
    /\ CountOf(diagnosticCollection, triggers[i].doc) > 0

\* C4: a trigger for a document that is not elixir does nothing: no
\* info-mode process, no lint-mode process, the collection unchanged.
C4_NotElixirIgnored ==
  /\ [](\A i \in Triggers :
          languageId[triggers[i].doc] # "elixir"
            => /\ triggers[i].log = <<>>
               /\ triggers[i].pc = "done"
               /\ triggers[i].infoOutcome = "none"
               /\ triggers[i].lintOutcome = "none")
  /\ [][Len(triggers') > Len(triggers)
          => diagnosticCollection' = diagnosticCollection]_vars

C4_Witness ==
  \E i \in Triggers :
    /\ languageId[triggers[i].doc] # "elixir"
    /\ diagnosticCollection # {}

\* C5: when the lint-mode invocation fails (the promise rejects) nothing is
\* published for the trigger and the collection is what it was.
C5_FailureSkipsPublish ==
  /\ [](\A i \in Triggers : Rejected(i) => ~Did(i, "publish"))
  /\ [][\A i \in Triggers :
          (triggers[i].lintOutcome = "pending" /\ Rejected(i)')
            => diagnosticCollection' = diagnosticCollection]_vars

\* The spawn failed for a document that holds diagnostics of an earlier run.
C5_Witness ==
  \E i \in Triggers :
    /\ triggers[i].lintOutcome = "spawnfail"
    /\ CountOf(diagnosticCollection, triggers[i].doc) > 0

\* C6: every failure of the lint-mode invocation is reported by
\* handleFileDiagnosticError: once the trigger has ended, console.warn has
\* been given its error.
C6_FailureIsLogged ==
  \A i \in Triggers :
    (triggers[i].pc = "done" /\ triggers[i].lintOutcome = "spawnfail")
      => Len(warnings) > 0

\* C7: a lint-mode process that was spawned and exited leads to a publish,
\* whatever its exit code.
C7_ExitCodeIgnored ==
  \A i \in Triggers :
    (triggers[i].pc = "done" /\ Did(i, "lintExit")) => Did(i, "publish")

\* C8: when the info-mode process cannot be spawned, the callback has got
\* the empty manifest only, no lint-mode process is spawned, nothing is
\* published and no rejection is left unhandled.
C8_InfoSpawnFailure ==
  \A i \in Triggers :
    triggers[i].infoOutcome = "spawnfail"
      => /\ triggers[i].callbacks = <<<<>>>>
         /\ ~Did(i, "lintSpawn")
         /\ ~Did(i, "publish")
         /\ ~Did(i, "unhandledRejection")

\* C9: when the info-mode output is not valid JSON the trigger ends without
\* the callback being called with a manifest, without a lint-mode process
\* and without a change of the collection.
C9_InvalidJsonFailsClosed ==
  /\ []((lastInfo.trigger # 0 /\ ~lastInfo.stdout.valid)
          => /\ triggers[lastInfo.trigger].pc = "done"
             /\ triggers[lastInfo.trigger].callbacks = <<<<>>>>
             /\ ~Did(lastInfo.trigger, "lintSpawn")
             /\ ~Did(lastInfo.trigger, "publish"))
  /\ [][(lastInfo' # lastInfo /\ ~lastInfo'.stdout.valid)
          => diagnosticCollection' = diagnosticCollection]_vars

C9_Witness ==
  /\ lastInfo.trigger # 0
  /\ ~lastInfo.stdout.valid
  /\ isLinted(<<<<"proj", "lib", "foo.ex">>>>, triggers[lastInfo.trigger].doc)

\* The text a trigger wrote to its lint-mode process.
TextOf(i) == triggers[i].stdin[1].text

\* C10: a publish is never held back or ordered by the age of its trigger:
\* when an older trigger of a document publishes after a newer one has, the
\* entry of the document becomes that of the older trigger.
C10_LastPublishWins ==
  [][\A i, j \in Triggers :
       (/\ i < j
        /\ triggers[i].doc = triggers[j].doc
        /\ Did(j, "publish")
        /\ Does(i, "publish"))
         => EntriesOf(diagnosticCollection', triggers[i].doc)
              = {EntryFor(triggers[i].doc, lastExit'.output)}]_vars

\* Trigger i read older text than trigger j and was still running when j
\* published; it published last, and its diagnostics replaced those of j.
C10_Witness ==
  \E i, j \in Triggers :
    /\ i < j
    /\ triggers[i].doc = triggers[j].doc
    /\ Did(i, "publish") /\ Did(j, "publish")
    /\ TextOf(i) < TextOf(j)
    /\ lastExit.trigger = i
    /\ lastExit.prior # Len(buildDiagnostics(lastExit.output))
    /\ EntriesOf(diagnosticCollection, triggers[i].doc)
         = {EntryFor(triggers[i].doc, lastExit.output)}

\* The place of the first ev in a log that holds it.
Pos(log, ev) == CHOOSE k \in 1..Len(log) :
                  log[k] = ev /\ \A j \in 1..(k - 1) : log[j] # ev

HoldsPath(files, d) == \E n \in 1..Len(files) : files[n] = fileName[d]

\* C11: the entry of a document changes only in a step in which a trigger
\* of that document publishes: a publish for one document leaves the entry
\* of every other document as it is, whatever else is running.
C11_DocumentsIndependent ==
  [][\A d \in TextDocuments :
       EntriesOf(diagnosticCollection', d) # EntriesOf(diagnosticCollection, d)
         => \E i \in Triggers : triggers[i].doc = d /\ Does(i, "publish")]_vars

\* Trigger j of one document ran from its start to its publish while
\* trigger i of another document was running; both entries are there.
C11_Witness ==
  \E i, j \in Triggers :
    /\ i < j
    /\ triggers[i].doc # triggers[j].doc
    /\ Did(i, "publish") /\ Did(j, "publish")
    /\ lastExit.trigger = i
    /\ CountOf(diagnosticCollection, triggers[i].doc) > 0
    /\ CountOf(diagnosticCollection, triggers[j].doc) > 0

\* A position or column that is a positive integer.
IsPositiveInteger(tok) ==
  /\ tok # <<>>
  /\ \A k \in 1..Len(tok) : tok[k] \in DigitChars
  /\ DigitsValue(tok, Len(tok)) > 0

\* C12: getDiagnosticInfo returns a result for a record exactly when its
\* position and its column are both positive integers; a value that is
\* absent, is not a number, only begins with digits or is <= 0 gives none.
C12_DropsUnlessPositiveIntegers ==
  (call.fn = "getDiagnosticInfo" /\ call.arg # NoResult)
    => ((call.result # NoResult)
          <=> (IsPositiveInteger(call.arg.position)
                 /\ IsPositiveInteger(call.arg.column)))

\* C13: a record that getDiagnosticInfo accepts gives startColumn 0,
\* startLine = endLine = position - 1 and endColumn = column - 1, integers
\* that are not negative, and the check and the message of the record.
C13_AcceptedCoordinates ==
  (call.fn = "getDiagnosticInfo" /\ call.result # NoResult)
    => LET position == parseInt(call.arg.position).v
           column == parseInt(call.arg.column).v
       IN /\ call.result.startColumn = Num(0)
          /\ call.result.startLine = Num(position - 1)
          /\ call.result.endLine = Num(position - 1)
          /\ call.result.endColumn = Num(column - 1)
          /\ position - 1 >= 0 /\ column - 1 >= 0
          /\ call.result.check = call.arg.check
          /\ call.result.message = call.arg.message

\* The line is a record that parses and that getDiagnosticInfo keeps.
Survives(line) ==
  /\ line # BlankLine
  /\ line.matches
  /\ getDiagnosticInfo(getLineInfo(line)) # NoResult

\* The n-th member of a set of places.
Nth(places, n) ==
  CHOOSE k \in places : Cardinality({j \in places : j <= k}) = n

C15_InputOrder(i) ==
  LET t == triggers[i]
  IN Did(i, "lintSpawn")
       => /\ Len(t.stdin) = 2
          /\ t.stdin[1].op = "write"
          /\ t.stdin[1].text \in 0..docText[t.doc]
          /\ t.stdin[2].op = "end"
          /\ Did(i, "stdinWrite") /\ Did(i, "stdinEnd")
          /\ Pos(t.log, "lintSpawn") < Pos(t.log, "stdinWrite")
          /\ Pos(t.log, "stdinWrite") < Pos(t.log, "stdinEnd")
          /\ Did(i, "lintExit") => Pos(t.log, "stdinEnd") < Pos(t.log, "lintExit")
          /\ Did(i, "publish") => Pos(t.log, "stdinEnd") < Pos(t.log, "publish")

C15_StdinWrittenThenClosed ==
  /\ [](\A i \in Triggers : C15_InputOrder(i))
  /\ [][\A i \in Triggers :
          Does(i, "stdinWrite")
            => /\ triggers'[i].stdin[1].text = docText[triggers[i].doc]
               /\ Does(i, "stdinEnd")
               /\ ~Does(i, "publish")]_vars

\* A trigger published for text that had been edited before it was written.
C15_Witness ==
  \E i \in Triggers :
    /\ Did(i, "publish")
    /\ triggers[i].stdin[1].text > 0
    /\ triggers[i].stdin[2].op = "end"

\* A path without "." and ".." segments.
IsPlain(path) == \A k \in 1..Len(path) : path[k] \notin {".", ".."}

\* C16: the manifest of an info-mode output with a config.files array is
\* that array with each path joined to the project root, in order, and the
\* document is linted exactly when its path is among them.
C16_ManifestAndEligibility ==
  (call.fn = "handleCredoFileOutput" /\ call.arg.valid /\ call.arg.hasFiles)
    => LET given == call.arg.files
           files == call.result.files
       IN /\ ~call.result.threw
          /\ Len(files) = Len(given)
          /\ \A k \in 1..Len(given) :
               /\ IsPlain(files[k])
               /\ SubSeq(files[k], 1, Len(rootPath)) = rootPath
               /\ files[k][Len(files[k])] = given[k][Len(given[k])]
               /\ IsPlain(given[k]) => files[k] = rootPath \o given[k]
          /\ call.result.linted <=> HoldsPath(files, call.doc)
          /\ given = <<<<"lib", "foo.ex">>, <<"lib", "bar.ex">>>>
               => (call.result.linted <=> call.doc = "foo")

\* files [lib/foo.ex, lib/bar.ex] under the root: foo.ex is linted.
C16_Witness ==
  /\ call.fn = "handleCredoFileOutput"
  /\ call.arg = JsonFiles(<<<<"lib", "foo.ex">>, <<"lib", "bar.ex">>>>)
  /\ call.doc = "foo"
  /\ call.result.files = <<<<"proj", "lib", "foo.ex">>, <<"proj", "lib", "bar.ex">>>>
  /\ call.result.linted

\* C17: makeZeroIndex gives 0 for an integer <= 0 and v - 1 for an integer
\* v > 0: its result is never negative.
C17_ZeroIndex ==
  call.fn = "makeZeroIndex"
    => /\ call.arg <= 0 => call.result = Num(0)
       /\ call.arg > 0 => call.result = Num(call.arg - 1)
       /\ ~call.result.isNaN
       /\ call.result.v >= 0

C17_Witness ==
  /\ call.fn = "makeZeroIndex"
  /\ call.arg = 0
  /\ call.result = Num(0)

\* C18: a trigger spawns its lint-mode process only after its info-mode
\* process has exited, the promise has resolved and the callback has got
\* files that hold the document; it publishes only after the lint-mode
\* process has exited; only elixir documents get that far.
C18_StepOrder ==
  \A i \in Triggers :
    LET t == triggers[i]
    IN /\ t.log # <<>> => (languageId[t.doc] = "elixir" /\ t.log[1] = "infoSpawn")
       /\ Did(i, "lintSpawn")
            => /\ t.infoOutcome = "resolved"
               /\ Did(i, "infoExit")
               /\ Pos(t.log, "infoSpawn") < Pos(t.log, "infoExit")
               /\ Pos(t.log, "infoExit") < Pos(t.log, "lintSpawn")
               /\ t.log[Pos(t.log, "lintSpawn") - 1] = "callback"
               /\ HoldsPath(t.callbacks[Len(t.callbacks)], t.doc)
       /\ Did(i, "publish")
            => /\ Did(i, "lintSpawn") /\ Did(i, "lintExit")
               /\ Pos(t.log, "lintSpawn") < Pos(t.log, "lintExit")
               /\ Pos(t.log, "lintExit") < Pos(t.log, "publish")

\* A trigger went through every step.
C18_Witness ==
  \E i \in Triggers :
    triggers[i].log = <<"infoSpawn", "callback", "infoExit", "callback",
                        "lintSpawn", "stdinWrite", "stdinEnd", "lintExit", "publish">>

\* C19: a trigger spawns at most one lint-mode process and publishes at
\* most once, however often its callback is called.
C19_AtMostOneRun ==
  \A i \in Triggers :
    /\ Count(triggers[i].log, "lintSpawn") <= 1
    /\ Count(triggers[i].log, "lintExit") <= 1
    /\ Count(triggers[i].log, "publish") <= 1

\* The callback of a trigger was called twice; the trigger published once.
C19_Witness ==
  \E i \in Triggers :
    /\ Len(triggers[i].callbacks) = 2
    /\ Count(triggers[i].log, "callback") = 2
    /\ Count(triggers[i].log, "lintSpawn") = 1
    /\ Count(triggers[i].log, "publish") = 1

\* C20: for an info-mode output that is valid JSON, handleCredoFileOutput
\* reaches the callback with a list of paths and raises nothing.
C20_ValidJsonReachesCallback ==
  (lastInfo.trigger # 0 /\ lastInfo.stdout.valid)
    => /\ Len(triggers[lastInfo.trigger].callbacks) = 2
       /\ ~parseInfoOutput(lastInfo.stdout).threw
       /\ ~parseInfoOutput(lastInfo.stdout).undefined

====
